---- MODULE Spec2Model ----
(***************************************************************************)
(* AarogyaAI backend (FastAPI over a MongoDB document store).              *)
(*                                                                         *)
(* The model covers the request handlers of main.py, the entity schemas of *)
(* schemas.py, the serialization helper _serialize and the symptom risk    *)
(* heuristic.  The store adapter (database.py: create_document,            *)
(* get_documents, db) is not part of the sources at hand and is modelled   *)
(* from section 4.1 of the specification.                                  *)
(***************************************************************************)
EXTENDS Integers, Sequences, FiniteSets, TLC

VARIABLES
    db,        \* database.db: None or the five collections
    last,      \* the last request served and the response it got
    inflight,  \* per worker: the create_profile request between its two store calls
    raw,       \* the document handed to _serialize
    pub,       \* what _serialize made of it so far
    passes     \* how often _serialize has been applied to raw

vars == <<db, last, inflight, raw, pub, passes>>

(***************************************************************************)
(* Bounds of the model.                                                    *)
(***************************************************************************)
MaxDocs == 2
MaxSymptoms == 6
MaxPasses == 2
MaxItems == 2
MaxTime == 1
NumWorkers == 2

(***************************************************************************)
(* Python values.  Every value carries its type, as isinstance sees it.    *)
(***************************************************************************)
None == [t |-> "NoneType", v |-> "None"]
Str(s) == [t |-> "str", v |-> s]
IntV(n) == [t |-> "int", v |-> n]
Bool(b) == [t |-> "bool", v |-> b]
Float(bits) == [t |-> "float", v |-> bits]
Datetime(n) == [t |-> "datetime", v |-> n]
ObjectId(n) == [t |-> "ObjectId", v |-> n]
List(s) == [t |-> "list", v |-> s]

(***************************************************************************)
(* binary64 arithmetic.  A non-negative float x is held as the natural     *)
(* number x * 4096^FracDigits, written in base 4096, lowest digit first,   *)
(* without leading zeros.  A float has at most MantissaBits significant    *)
(* bits, and every operation rounds its exact result to nearest, ties to   *)
(* even.                                                                   *)
(***************************************************************************)
MantissaBits == 53
FracDigits == 5

Pow2 == [i \in 0..12 |-> CASE i = 0 -> 1 [] i = 1 -> 2 [] i = 2 -> 4 [] i = 3 -> 8
                           [] i = 4 -> 16 [] i = 5 -> 32 [] i = 6 -> 64 [] i = 7 -> 128
                           [] i = 8 -> 256 [] i = 9 -> 512 [] i = 10 -> 1024
                           [] i = 11 -> 2048 [] i = 12 -> 4096]

RECURSIVE Norm(_)
Norm(a) ==
    IF a = <<>> THEN <<>>
    ELSE IF a[Len(a)] = 0 THEN Norm(SubSeq(a, 1, Len(a) - 1))
    ELSE a

RECURSIVE FromNat(_)
FromNat(n) == IF n = 0 THEN <<>> ELSE <<n % 4096>> \o FromNat(n \div 4096)

RECURSIVE AddFrom(_, _, _, _)
AddFrom(a, b, k, c) ==
    IF k > Len(a) /\ k > Len(b) THEN <<c>>
    ELSE LET sum == (IF k <= Len(a) THEN a[k] ELSE 0)
                    + (IF k <= Len(b) THEN b[k] ELSE 0) + c
         IN <<sum % 4096>> \o AddFrom(a, b, k + 1, sum \div 4096)

Add(a, b) == Norm(AddFrom(a, b, 1, 0))

\* a * n for a small natural number n
RECURSIVE MulFrom(_, _, _, _)
MulFrom(a, n, k, c) ==
    IF k > Len(a) THEN FromNat(c)
    ELSE LET prod == a[k] * n + c
         IN <<prod % 4096>> \o MulFrom(a, n, k + 1, prod \div 4096)

MulNat(a, n) == Norm(MulFrom(a, n, 1, 0))

\* a \div d and a % d for a small divisor d: long division from the top digit
RECURSIVE DivFrom(_, _, _, _, _)
DivFrom(a, d, k, r, q) ==
    IF k = 0 THEN [q |-> Norm(q), r |-> r]
    ELSE LET cur == r * 4096 + a[k]
         IN DivFrom(a, d, k - 1, cur % d, <<cur \div d>> \o q)

DivNat(a, d) == DivFrom(a, d, Len(a), 0, <<>>)

RECURSIVE LessFrom(_, _, _)
LessFrom(a, b, k) ==
    IF k = 0 THEN FALSE
    ELSE IF a[k] # b[k] THEN a[k] < b[k]
    ELSE LessFrom(a, b, k - 1)

Less(a, b) == IF Len(a) # Len(b) THEN Len(a) < Len(b) ELSE LessFrom(a, b, Len(a))

Leq(a, b) == ~Less(b, a)

\* the number of bits of a, and its bit at place i (place 1 is the lowest)
BitLen(a) ==
    IF a = <<>> THEN 0
    ELSE 12 * (Len(a) - 1) + (CHOOSE n \in 1..12 : Pow2[n - 1] <= a[Len(a)] /\ a[Len(a)] < Pow2[n])

BitAt(a, i) == (a[(i - 1) \div 12 + 1] \div Pow2[(i - 1) % 12]) % 2

\* 2^n, and a with its lowest n bits cleared
PowerOfTwo(n) == [k \in 1..(n \div 12 + 1) |-> IF k = n \div 12 + 1 THEN Pow2[n % 12] ELSE 0]

ClearLow(a, n) ==
    [k \in 1..Len(a) |->
        IF 12 * k <= n THEN 0
        ELSE IF 12 * (k - 1) >= n THEN a[k]
        ELSE (a[k] \div Pow2[n - 12 * (k - 1)]) * Pow2[n - 12 * (k - 1)]]

\* round a (plus a little more when sticky) to MantissaBits significant bits
Round(a, sticky) ==
    IF BitLen(a) <= MantissaBits THEN a
    ELSE LET drop == BitLen(a) - MantissaBits
             guard == BitAt(a, drop) = 1
             rest == sticky \/ \E i \in 1..(drop - 1) : BitAt(a, i) = 1
             up == guard /\ (rest \/ BitAt(a, drop + 1) = 1)
         IN IF up THEN Add(ClearLow(a, drop), PowerOfTwo(drop)) ELSE ClearLow(a, drop)

Scaled(a) == IF a = <<>> THEN <<>> ELSE [k \in 1..FracDigits |-> 0] \o a

One == Scaled(<<1>>)

\* the float a decimal literal of h hundredths denotes (0.15 is FloatLit(15))
FloatLit(h) ==
    LET d == DivNat(Scaled(FromNat(h)), 100)
    IN Round(d.q, d.r # 0)

\* float(n) for a small natural number n
FloatOfInt(n) == Scaled(FromNat(n))

\* x * float(n)
FloatMulInt(x, n) == Round(MulNat(x, n), FALSE)

FloatAdd(x, y) == Round(Add(x, y), FALSE)

\* Python's min(x, y): y when y < x, else x
FloatMin(x, y) == IF Less(y, x) THEN y ELSE x

(***************************************************************************)
(* Python dicts (and BSON documents): a sequence of <<key, value>> items   *)
(* with distinct keys, in insertion order.                                 *)
(***************************************************************************)
Dict(items) == [t |-> "dict", v |-> items]

Keys(d) == {d[i][1] : i \in 1..Len(d)}

Has(d, k) == k \in Keys(d)

Get(d, k) == d[CHOOSE i \in 1..Len(d) : d[i][1] = k][2]

\* d.get(k, default)
GetOr(d, k, default) == IF Has(d, k) THEN Get(d, k) ELSE default

\* d[k] = v
Put(d, k, v) ==
    IF Has(d, k) THEN [i \in 1..Len(d) |-> IF d[i][1] = k THEN <<k, v>> ELSE d[i]]
    ELSE Append(d, <<k, v>>)

RECURSIVE Filter(_, _)
\* the items of d whose value is not None, in order
Filter(d, i) ==
    IF i > Len(d) THEN <<>>
    ELSE (IF d[i][2] = None THEN <<>> ELSE <<d[i]>>) \o Filter(d, i + 1)

\* bool(v) for the values a handler tests
Truthy(x) ==
    CASE x.t = "NoneType" -> FALSE
      [] x.t = "str" -> x.v # ""
      [] x.t = "list" -> x.v # <<>>
      [] x.t = "dict" -> x.v # <<>>
      [] x.t = "bool" -> x.v
      [] x.t = "int" -> x.v # 0
      [] OTHER -> TRUE

\* str(v)
StrOf(x) ==
    CASE x.t = "str" -> x
      [] x.t = "ObjectId" -> Str("oid-" \o ToString(x.v))
      [] x.t = "datetime" -> Str("date " \o ToString(x.v))
      [] x.t = "int" -> Str(ToString(x.v))
      [] x.t = "NoneType" -> Str("None")
      [] x.t = "bool" -> Str(IF x.v THEN "True" ELSE "False")
      [] OTHER -> Str("?")

\* datetime.isoformat()
isoformat(x) == Str("dateT" \o ToString(x.v))

(***************************************************************************)
(* main.py: _serialize.  The argument is None or a dict.                   *)
(***************************************************************************)
RECURSIVE SerializeItems(_, _, _)
SerializeItems(items, i, res) ==
    IF i > Len(items) THEN res
    ELSE LET k == items[i][1]
             val == items[i][2]
         IN SerializeItems(items, i + 1,
                IF k = "_id" THEN Put(res, "id", StrOf(val))
                ELSE IF val.t = "datetime" THEN Put(res, k, isoformat(val))
                ELSE Put(res, k, val))

\* `if not doc: return {}` in place of lines 28-29
_serialize_empty(doc) ==
    IF doc = None THEN Dict(<<>>)
    ELSE Dict(SerializeItems(doc.v, 1, <<>>))

_serialize(doc) ==
    IF doc = None THEN doc
    ELSE Dict(SerializeItems(doc.v, 1, <<>>))

(***************************************************************************)
(* schemas.py: the entities, as the dict of their fields (model_dump), and *)
(* their field constraints.                                                *)
(***************************************************************************)
UserProfile(name, email, phone, age, gender, height_cm, weight_kg, theme, notifications_enabled) ==
    << <<"name", name>>, <<"email", email>>, <<"phone", phone>>, <<"age", age>>,
       <<"gender", gender>>, <<"height_cm", height_cm>>, <<"weight_kg", weight_kg>>,
       <<"theme", theme>>, <<"notifications_enabled", notifications_enabled>> >>

ValidUserProfile(p) ==
    /\ Get(p, "name").t = "str"
    /\ Get(p, "email").t = "str"
    /\ Get(p, "age") = None
         \/ (Get(p, "age").t = "int" /\ Get(p, "age").v >= 0 /\ Get(p, "age").v <= 120)
    /\ Get(p, "gender") \in
         {None, Str("male"), Str("female"), Str("other"), Str("prefer_not_to_say")}
    /\ Get(p, "theme") \in {Str("dark"), Str("light"), Str("system")}
    /\ Get(p, "notifications_enabled").t = "bool"

Report(title, report_type, report_date, file_url, notes, owner_email) ==
    << <<"title", title>>, <<"report_type", report_type>>,
       <<"report_date", report_date>>, <<"file_url", file_url>>,
       <<"notes", notes>>, <<"owner_email", owner_email>> >>

ValidReport(r) ==
    /\ Get(r, "title").t = "str"
    /\ Get(r, "report_type") \in
         {Str("blood_test"), Str("scan"), Str("prescription"),
          Str("discharge_summary"), Str("other")}
    /\ Get(r, "owner_email").t = "str"

ChatMessage(conversation_id, role, content, owner_email) ==
    << <<"conversation_id", conversation_id>>, <<"role", role>>,
       <<"content", content>>, <<"owner_email", owner_email>> >>

ValidChatMessage(m) ==
    /\ Get(m, "role") \in {Str("user"), Str("assistant")}
    /\ Get(m, "content").t = "str"

SymptomCheck(symptoms, duration, severity, notes, assessment, risk_score, owner_email) ==
    << <<"symptoms", symptoms>>, <<"duration", duration>>, <<"severity", severity>>,
       <<"notes", notes>>, <<"assessment", assessment>>,
       <<"risk_score", risk_score>>, <<"owner_email", owner_email>> >>

ValidSymptomCheck(e) ==
    /\ Get(e, "symptoms").t = "list"
    /\ Get(e, "severity") \in {None, Str("mild"), Str("moderate"), Str("severe")}
    /\ Get(e, "risk_score") = None
         \/ (Get(e, "risk_score").t = "float" /\ Leq(Get(e, "risk_score").v, One))

Reminder(title, schedule, active, owner_email) ==
    << <<"title", title>>, <<"schedule", schedule>>, <<"active", active>>,
       <<"owner_email", owner_email>> >>

ValidReminder(r) ==
    /\ Get(r, "title").t = "str"
    /\ Get(r, "schedule").t = "str"
    /\ Get(r, "active").t = "bool"

\* main.py: ProfileUpdate, every field optional and unconstrained
ProfileUpdate(name, phone, age, gender, height_cm, weight_kg, theme, notifications_enabled) ==
    << <<"name", name>>, <<"phone", phone>>, <<"age", age>>, <<"gender", gender>>,
       <<"height_cm", height_cm>>, <<"weight_kg", weight_kg>>, <<"theme", theme>>,
       <<"notifications_enabled", notifications_enabled>> >>

(***************************************************************************)
(* The store adapter (database.py).  db is None when no connection was     *)
(* configured; otherwise it holds one sequence of documents per            *)
(* collection, in insertion order.  `fails` says that the store operation  *)
(* raises (a lost connection, a timeout).                                  *)
(***************************************************************************)
Collections == {"userprofile", "report", "chatmessage", "symptomcheck", "reminder"}

EmptyStore == [c \in Collections |-> <<>>]

TotalDocs(store) ==
    IF store = None THEN 0
    ELSE Len(store["userprofile"]) + Len(store["report"]) + Len(store["chatmessage"])
         + Len(store["symptomcheck"]) + Len(store["reminder"])

Matches(doc, filt) ==
    \A k \in Keys(filt) : Has(doc, k) /\ Get(doc, k) = Get(filt, k)

create_document(store, collection, data, fails) ==
    IF store = None THEN [err |-> "StoreUnavailable", id |-> None, store |-> store]
    ELSE IF fails THEN [err |-> "StoreError", id |-> None, store |-> store]
    ELSE LET oid == ObjectId(TotalDocs(store) + 1)
             doc == << <<"_id", oid>> >> \o Filter(data, 1)
         IN [err |-> "", id |-> StrOf(oid),
             store |-> [store EXCEPT ![collection] = Append(@, doc)]]

get_documents(store, collection, filt, limit, fails) ==
    IF store = None THEN [err |-> "StoreUnavailable", docs |-> <<>>]
    ELSE IF fails THEN [err |-> "StoreError", docs |-> <<>>]
    ELSE LET found == SelectSeq(store[collection], LAMBDA d : Matches(d, filt))
         IN [err |-> "",
             docs |-> SubSeq(found, 1, IF limit < Len(found) THEN limit ELSE Len(found))]

\* pymongo, as update_profile uses it: Collection.find_one and Collection.update_one
find_one(docs, filt) ==
    LET found == SelectSeq(docs, LAMBDA d : Matches(d, filt))
    IN IF found = <<>> THEN None ELSE Dict(found[1])

RECURSIVE SetAll(_, _, _)
SetAll(doc, data, i) ==
    IF i > Len(data) THEN doc
    ELSE SetAll(Put(doc, data[i][1], data[i][2]), data, i + 1)

update_one(docs, filt, data) ==
    LET hits == {i \in 1..Len(docs) : Matches(docs[i], filt)}
    IN IF hits = {} THEN docs
       ELSE LET first == CHOOSE i \in hits : \A j \in hits : i <= j
            IN [docs EXCEPT ![first] = SetAll(@, data, 1)]

(***************************************************************************)
(* Responses.  A handler yields the status, the body and the store it      *)
(* leaves behind.                                                          *)
(***************************************************************************)
Response(status, body, store) == [status |-> status, body |-> body, store |-> store]

HTTPException(status_code, detail, store) ==
    Response(status_code, Dict(<< <<"detail", Str(detail)>> >>), store)

\* an exception of the store adapter that no handler catches
Failed(err, store) ==
    IF err = "StoreUnavailable" THEN HTTPException(503, "Database not available", store)
    ELSE HTTPException(500, "Internal Server Error", store)

\* FastAPI's answer to a body or a query parameter that fails validation
RequestValidationError(store) == HTTPException(422, "validation error", store)

(***************************************************************************)
(* main.py: the request handlers.  Each takes the store, the validated-or- *)
(* not request and `fault`: the number of the store call that raises while *)
(* the handler runs (0: none does).                                        *)
(***************************************************************************)
MaxListLimit == 100
MaxHistoryLimit == 200

\* Query(default, ge=0, le=hi): a limit of 0 passes
LimitOk_from_zero(limit, hi) == limit.t = "int" /\ limit.v >= 0 /\ limit.v <= hi

\* Query(default, ge=1, le=hi)
LimitOk(limit, hi) == limit.t = "int" /\ limit.v >= 1 /\ limit.v <= hi

\* the owner filter never built: every listing is of all owners
OwnerFilter_dropped(owner_email) == <<>>

OwnerFilter(owner_email) ==
    IF Truthy(owner_email) THEN << <<"owner_email", owner_email>> >> ELSE <<>>

SerializeAll(docs) == List([i \in 1..Len(docs) |-> _serialize(Dict(docs[i]))])

root(store) ==
    Response(200, Dict(<< <<"app", Str("AarogyaAI Backend")>>, <<"status", Str("ok")>> >>),
             store)

\* db.list_collection_names(): the collections that hold a document
CollectionNames(store) ==
    SelectSeq(<<"userprofile", "report", "chatmessage", "symptomcheck", "reminder">>,
              LAMBDA c : store[c] # <<>>)

\* test_database; the two flags of the body that tell of the environment are left out
test_database(store, fault) ==
    IF store # None /\ fault = 1
    THEN Response(200, Dict(<< <<"backend", Str("running")>>,
                               <<"database", Str("error: StoreError")>> >>), store)
    ELSE Response(200,
             Dict(<< <<"backend", Str("running")>>,
                     <<"database", Str(IF store # None THEN "connected"
                                       ELSE "not_configured")>>,
                     <<"collections",
                       List(IF store = None THEN <<>>
                            ELSE LET names == CollectionNames(store)
                                 IN [i \in 1..Len(names) |-> Str(names[i])])>> >>),
             store)

\* create_profile without its lookup of the email: every valid profile goes on to the insert
create_profile_unchecked(store, profile, fails) ==
    IF ~ValidUserProfile(profile) THEN RequestValidationError(store)
    ELSE LET existing == get_documents(store, "userprofile", <<>>, 1, fails)
         IN IF existing.err # "" THEN Failed(existing.err, store)
            ELSE Response(0, None, store)

\* create_profile, lines 70-74: validation and the uniqueness check.  Status 0 says
\* that nothing was raised and the handler goes on to the insert.
create_profile_check(store, profile, fails) ==
    IF ~ValidUserProfile(profile) THEN RequestValidationError(store)
    ELSE LET existing == get_documents(store, "userprofile",
                                       << <<"email", Get(profile, "email")>> >>, 1, fails)
         IN IF existing.err # "" THEN Failed(existing.err, store)
            ELSE IF existing.docs # <<>>
                 THEN HTTPException(400, "Profile with this email already exists", store)
            ELSE Response(0, None, store)

\* the insert, were the collection to refuse a second profile with the same email
create_profile_insert_unique(store, profile, fails) ==
    LET checked == create_profile_check(store, profile, fails)
    IN IF checked.status # 0 THEN checked
       ELSE LET c == create_document(store, "userprofile", profile, fails)
            IN Response(200, Dict(<< <<"id", c.id>> >>), c.store)

\* create_profile, lines 75-76: the insert and the answer
create_profile_insert(store, profile, fails) ==
    LET c == create_document(store, "userprofile", profile, fails)
    IN IF c.err # "" THEN Failed(c.err, store)
       ELSE Response(200, Dict(<< <<"id", c.id>> >>), c.store)

create_profile(store, profile, fault) ==
    LET checked == create_profile_check(store, profile, fault = 1)
    IN IF checked.status # 0 THEN checked
       ELSE create_profile_insert(store, profile, fault = 2)

\* update_one(..., upsert=True) without the 404 of line 95: a missing profile is created
update_profile_upsert(store, email, changes, now, fault) ==
    IF store = None THEN HTTPException(503, "Database not available", store)
    ELSE IF fault \in {1, 2} THEN Failed("StoreError", store)
    ELSE LET data == Put(Filter(changes, 1), "updated_at", Datetime(now))
             found == find_one(store["userprofile"], << <<"email", email>> >>)
             docs == IF Truthy(found) THEN store["userprofile"]
                     ELSE Append(store["userprofile"],
                                 << <<"_id", ObjectId(TotalDocs(store) + 1)>>,
                                    <<"email", email>> >>)
         IN Response(200, Dict(<< <<"ok", Bool(TRUE)>> >>),
                     [store EXCEPT !["userprofile"] =
                         update_one(docs, << <<"email", email>> >>, data)])

\* line 96 without `if v is not None`: a field sent as null overwrites the stored value
update_profile_nulls(store, email, changes, now, fault) ==
    IF store = None THEN HTTPException(503, "Database not available", store)
    ELSE IF fault = 1 THEN Failed("StoreError", store)
    ELSE LET found == find_one(store["userprofile"], << <<"email", email>> >>)
         IN IF ~Truthy(found) THEN HTTPException(404, "Profile not found", store)
            ELSE LET data == Put(changes, "updated_at", Datetime(now))
                 IN IF fault = 2 THEN Failed("StoreError", store)
                    ELSE Response(200, Dict(<< <<"ok", Bool(TRUE)>> >>),
                             [store EXCEPT !["userprofile"] =
                                 update_one(@, << <<"email", email>> >>, data)])

update_profile(store, email, changes, now, fault) ==
    IF store = None THEN HTTPException(503, "Database not available", store)
    ELSE IF fault = 1 THEN Failed("StoreError", store)
    ELSE LET found == find_one(store["userprofile"], << <<"email", email>> >>)
         IN IF ~Truthy(found) THEN HTTPException(404, "Profile not found", store)
            ELSE LET data == Put(Filter(changes, 1), "updated_at", Datetime(now))
                 IN IF fault = 2 THEN Failed("StoreError", store)
                    ELSE Response(200, Dict(<< <<"ok", Bool(TRUE)>> >>),
                             [store EXCEPT !["userprofile"] =
                                 update_one(@, << <<"email", email>> >>, data)])

get_profile(store, email, fault) ==
    LET q == get_documents(store, "userprofile", << <<"email", email>> >>, 1, fault = 1)
    IN IF q.err # "" THEN Failed(q.err, store)
       ELSE IF q.docs = <<>> THEN HTTPException(404, "Profile not found", store)
       ELSE Response(200, _serialize(Dict(q.docs[1])), store)

create_report(store, report, fault) ==
    IF ~ValidReport(report) THEN RequestValidationError(store)
    ELSE LET c == create_document(store, "report", report, fault = 1)
         IN IF c.err # "" THEN Failed(c.err, store)
            ELSE Response(200, Dict(<< <<"id", c.id>> >>), c.store)

list_reports(store, owner_email, limit, fault) ==
    IF ~LimitOk(limit, MaxListLimit) THEN RequestValidationError(store)
    ELSE LET q == get_documents(store, "report", OwnerFilter(owner_email), limit.v,
                                fault = 1)
         IN IF q.err # "" THEN Failed(q.err, store)
            ELSE Response(200, SerializeAll(q.docs), store)

reply_text == "I'm your AarogyaAI assistant. While I can't provide medical diagnosis, I can help you track symptoms and suggest next steps. Could you share more details?"

\* the reply built without the owner of the message it answers
chat_reply_unowned(store, message, fault) ==
    IF ~ValidChatMessage(message) THEN RequestValidationError(store)
    ELSE LET user == create_document(store, "chatmessage", message, fault = 1)
         IN IF user.err # "" THEN Failed(user.err, store)
            ELSE LET assistant_msg ==
                         ChatMessage(Get(message, "conversation_id"), Str("assistant"),
                                     Str(reply_text), None)
                     assistant == create_document(user.store, "chatmessage",
                                                  assistant_msg, fault = 2)
                 IN IF assistant.err # "" THEN Failed(assistant.err, user.store)
                    ELSE Response(200,
                             Dict(<< <<"user_message_id", user.id>>,
                                     <<"assistant_message_id", assistant.id>>,
                                     <<"reply", Str(reply_text)>> >>),
                             assistant.store)

chat(store, message, fault) ==
    IF ~ValidChatMessage(message) THEN RequestValidationError(store)
    ELSE LET user == create_document(store, "chatmessage", message, fault = 1)
         IN IF user.err # "" THEN Failed(user.err, store)
            ELSE LET assistant_msg ==
                         ChatMessage(Get(message, "conversation_id"), Str("assistant"),
                                     Str(reply_text), Get(message, "owner_email"))
                     assistant == create_document(user.store, "chatmessage",
                                                  assistant_msg, fault = 2)
                 IN IF assistant.err # "" THEN Failed(assistant.err, user.store)
                    ELSE Response(200,
                             Dict(<< <<"user_message_id", user.id>>,
                                     <<"assistant_message_id", assistant.id>>,
                                     <<"reply", Str(reply_text)>> >>),
                             assistant.store)

\* list.sort(key=...): stable, ascending
RECURSIVE SortByCreatedAt(_, _, _, _)
SortByCreatedAt(docs, now, i, acc) ==
    IF i > Len(docs) THEN acc
    ELSE LET key(d) == GetOr(d, "created_at", Datetime(now)).v
             n == Cardinality({j \in 1..Len(acc) : key(acc[j]) <= key(docs[i])})
         IN SortByCreatedAt(docs, now, i + 1,
                SubSeq(acc, 1, n) \o <<docs[i]>> \o SubSeq(acc, n + 1, Len(acc)))

chat_history(store, conversation_id, owner_email, limit, now, fault) ==
    IF ~LimitOk(limit, MaxHistoryLimit) THEN RequestValidationError(store)
    ELSE LET filt == (IF Truthy(conversation_id)
                      THEN << <<"conversation_id", conversation_id>> >> ELSE <<>>)
                     \o OwnerFilter(owner_email)
             q == get_documents(store, "chatmessage", filt, limit.v, fault = 1)
         IN IF q.err # "" THEN Failed(q.err, store)
            ELSE Response(200, SerializeAll(SortByCreatedAt(q.docs, now, 1, <<>>)), store)

assessment_text == "Symptoms recorded. If symptoms worsen or you experience severe issues (e.g., chest pain, difficulty breathing), please seek immediate medical attention."

\* the literals of lines 168-169: the weight table and 0.15
SevWeights ==
    [s \in {None, Str("mild"), Str("moderate"), Str("severe")} |->
        CASE s = None -> FloatLit(20)
          [] s = Str("mild") -> FloatLit(30)
          [] s = Str("moderate") -> FloatLit(60)
          [] s = Str("severe") -> FloatLit(85)]

PerSymptom == FloatLit(15)

\* line 169: min(1.0, 0.15 * count + sev_weight)
risk(count, sev_weight) == FloatMin(One, FloatAdd(FloatMulInt(PerSymptom, count), sev_weight))

\* risk, worked out once for every count and severity the model sends
RiskTable ==
    [count \in 0..MaxSymptoms |->
        [s \in {None, Str("mild"), Str("moderate"), Str("severe")} |->
            risk(count, SevWeights[s])]]

\* a risk_score sent by the client kept instead of the computed one
submit_symptoms_trusting(store, entry, fault) ==
    IF ~ValidSymptomCheck(entry) THEN RequestValidationError(store)
    ELSE LET count == Len(Get(entry, "symptoms").v)
             score == IF Get(entry, "risk_score") # None THEN Get(entry, "risk_score")
                      ELSE Float(RiskTable[count][Get(entry, "severity")])
             enriched == SymptomCheck(Get(entry, "symptoms"), Get(entry, "duration"),
                                      Get(entry, "severity"), Get(entry, "notes"),
                                      Str(assessment_text), score,
                                      Get(entry, "owner_email"))
         IN LET c == create_document(store, "symptomcheck", enriched, fault = 1)
            IN IF c.err # "" THEN Failed(c.err, store)
               ELSE Response(200,
                        Dict(<< <<"id", c.id>>, <<"risk_score", score>>,
                                <<"assessment", Str(assessment_text)>> >>),
                        c.store)

submit_symptoms(store, entry, fault) ==
    IF ~ValidSymptomCheck(entry) THEN RequestValidationError(store)
    ELSE LET count == Len(Get(entry, "symptoms").v)
             score == Float(RiskTable[count][Get(entry, "severity")])
             enriched == SymptomCheck(Get(entry, "symptoms"), Get(entry, "duration"),
                                      Get(entry, "severity"), Get(entry, "notes"),
                                      Str(assessment_text), score,
                                      Get(entry, "owner_email"))
         IN IF ~ValidSymptomCheck(enriched) THEN Failed("ValidationError", store)
            ELSE LET c == create_document(store, "symptomcheck", enriched, fault = 1)
                 IN IF c.err # "" THEN Failed(c.err, store)
                    ELSE Response(200,
                             Dict(<< <<"id", c.id>>, <<"risk_score", score>>,
                                     <<"assessment", Str(assessment_text)>> >>),
                             c.store)

list_symptom_checks(store, owner_email, limit, fault) ==
    IF ~LimitOk(limit, MaxListLimit) THEN RequestValidationError(store)
    ELSE LET q == get_documents(store, "symptomcheck", OwnerFilter(owner_email),
                                limit.v, fault = 1)
         IN IF q.err # "" THEN Failed(q.err, store)
            ELSE Response(200, SerializeAll(q.docs), store)

create_reminder(store, reminder, fault) ==
    IF ~ValidReminder(reminder) THEN RequestValidationError(store)
    ELSE LET c == create_document(store, "reminder", reminder, fault = 1)
         IN IF c.err # "" THEN Failed(c.err, store)
            ELSE Response(200, Dict(<< <<"id", c.id>> >>), c.store)

list_reminders(store, owner_email, limit, fault) ==
    IF ~LimitOk(limit, MaxListLimit) THEN RequestValidationError(store)
    ELSE LET q == get_documents(store, "reminder", OwnerFilter(owner_email), limit.v,
                                fault = 1)
         IN IF q.err # "" THEN Failed(q.err, store)
            ELSE Response(200, SerializeAll(q.docs), store)

(***************************************************************************)
(* The requests the model sends.                                           *)
(***************************************************************************)
Emails == {Str("a@b.com"), Str("c@d.com")}

Times == 1..MaxTime

Workers == 1..NumWorkers

NoFault == {0}

\* the store calls of a handler are numbered from 1; chat and the profile handlers make two
AnyFault == {0, 1, 2}

ProfileInputs ==
    {UserProfile(Str("Asha"), e, None, IntV(30), None, None, None, Str("dark"),
                 Bool(TRUE)) : e \in Emails}
    \cup {UserProfile(Str("Asha"), Str("a@b.com"), None, IntV(130), None, None, None,
                      Str("dark"), Bool(TRUE))}

ChangeInputs ==
    { ProfileUpdate(None, None, None, None, None, None, None, None),
      ProfileUpdate(None, None, IntV(31), None, None, None, None, None),
      ProfileUpdate(Str("Asha K"), Str("555-0100"), None, Str("other"),
                    Float(FloatOfInt(170)), Float(FloatOfInt(60)), Str("light"),
                    Bool(FALSE)) }

ReportInputs ==
    {Report(Str("CBC"), Str("blood_test"), None, None, None, e) : e \in Emails}
    \cup {Report(Str("CBC"), Str("x-ray"), None, None, None, Str("a@b.com"))}

ChatInputs ==
    {ChatMessage(c, r, Str("hello"), o) :
        c \in {None, Str("c1")}, r \in {Str("user"), Str("assistant")},
        o \in {None, Str("a@b.com")}}
    \cup {ChatMessage(None, Str("system"), Str("hello"), None)}

Symptoms(n) == List([i \in 1..n |-> Str("symptom")])

Severities == {None, Str("mild"), Str("moderate"), Str("severe")}

\* every count up to MaxSymptoms with every severity, for the risk heuristic
RiskInputs ==
    {SymptomCheck(Symptoms(n), None, sev, None, a, r, None) :
        n \in 0..MaxSymptoms, sev \in Severities,
        a \in {None, Str("all fine")}, r \in {None, Float(FloatLit(5))}}
    \cup {SymptomCheck(Symptoms(1), None, Str("mild"), None, None, Float(FloatLit(150)),
                       None),
          SymptomCheck(Symptoms(1), None, Str("critical"), None, None, None, None)}

ReminderInputs ==
    {Reminder(Str("Metformin"), Str("Daily 8:00 AM"), Bool(TRUE), o) :
        o \in {None, Str("a@b.com")}}
    \cup {Reminder(Str("Metformin"), None, Bool(TRUE), None)}

OwnerInputs == {None, Str(""), Str("a@b.com")}

ConversationInputs == {None, Str(""), Str("c1")}

LimitInputs == {IntV(0), IntV(1), IntV(2), IntV(MaxListLimit), IntV(MaxListLimit + 1)}

HistoryLimitInputs ==
    {IntV(0), IntV(1), IntV(2), IntV(MaxHistoryLimit), IntV(MaxHistoryLimit + 1)}

\* <<owner_email, limit>>: every limit without an owner, every owner with a wide limit
ListInputs ==
    {<<None, l>> : l \in LimitInputs}
    \cup {<<o, IntV(MaxListLimit)>> : o \in OwnerInputs}
    \cup {<<Str("a@b.com"), IntV(1)>>}

\* <<conversation_id, owner_email, limit>>
HistoryInputs ==
    {<<None, None, l>> : l \in HistoryLimitInputs}
    \cup {<<c, o, IntV(MaxHistoryLimit)>> : c \in ConversationInputs, o \in OwnerInputs}
    \cup {<<Str("c1"), Str("a@b.com"), IntV(1)>>}

ListedChats ==
    {ChatMessage(c, Str("user"), Str("hello"), o) :
        c \in {None, Str("c1")}, o \in {None, Str("a@b.com")}}

ListedSymptoms ==
    {SymptomCheck(Symptoms(1), None, None, None, None, None, o) :
        o \in {None, Str("a@b.com")}}

\* the requests of the specifications that send every kind of request
FewReports ==
    { Report(Str("CBC"), Str("blood_test"), None, None, None, Str("a@b.com")),
      Report(Str("CBC"), Str("x-ray"), None, None, None, Str("a@b.com")) }

FewChats ==
    { ChatMessage(Str("c1"), Str("user"), Str("hello"), Str("a@b.com")),
      ChatMessage(None, Str("system"), Str("hello"), None) }

FewSymptoms ==
    { SymptomCheck(Symptoms(2), None, Str("moderate"), None, None, None, Str("a@b.com")),
      SymptomCheck(Symptoms(1), None, Str("mild"), None, None, Float(FloatLit(150)),
                   None) }

FewReminders ==
    { Reminder(Str("Metformin"), Str("Daily 8:00 AM"), Bool(TRUE), Str("a@b.com")),
      Reminder(Str("Metformin"), None, Bool(TRUE), None) }

FewOwners == {Str("a@b.com")}

FewConversations == {Str("c1")}

FewLimits == {IntV(1)}

FewChanges == {ProfileUpdate(None, None, IntV(31), None, None, None, None, None)}

(***************************************************************************)
(* The actions: one request served from start to end.                      *)
(***************************************************************************)
Exchange(op, args, r) ==
    [op |-> op, args |-> Dict(args), status |-> r.status, body |-> r.body]

Serve(op, args, r) ==
    /\ db' = r.store
    /\ last' = Exchange(op, args, r)
    /\ UNCHANGED <<inflight, raw, pub, passes>>

Root == Serve("root", <<>>, root(db))

TestDatabase(fault) == Serve("test_database", <<>>, test_database(db, fault))

CreateProfile(profile, fault) ==
    Serve("create_profile", profile, create_profile(db, profile, fault))

UpdateProfile(email, changes, now, fault) ==
    Serve("update_profile", << <<"email", email>>, <<"changes", Dict(changes)>> >>,
          update_profile(db, email, changes, now, fault))

GetProfile(email, fault) ==
    Serve("get_profile", << <<"email", email>> >>, get_profile(db, email, fault))

CreateReport(report, fault) ==
    Serve("create_report", report, create_report(db, report, fault))

ListReports(owner_email, limit, fault) ==
    Serve("list_reports", << <<"owner_email", owner_email>>, <<"limit", limit>> >>,
          list_reports(db, owner_email, limit, fault))

Chat(message, fault) == Serve("chat", message, chat(db, message, fault))

ChatHistory(conversation_id, owner_email, limit, now, fault) ==
    Serve("chat_history",
          << <<"conversation_id", conversation_id>>, <<"owner_email", owner_email>>,
             <<"limit", limit>> >>,
          chat_history(db, conversation_id, owner_email, limit, now, fault))

SubmitSymptoms(entry, fault) ==
    Serve("submit_symptoms", entry, submit_symptoms(db, entry, fault))

ListSymptomChecks(owner_email, limit, fault) ==
    Serve("list_symptom_checks",
          << <<"owner_email", owner_email>>, <<"limit", limit>> >>,
          list_symptom_checks(db, owner_email, limit, fault))

CreateReminder(reminder, fault) ==
    Serve("create_reminder", reminder, create_reminder(db, reminder, fault))

ListReminders(owner_email, limit, fault) ==
    Serve("list_reminders", << <<"owner_email", owner_email>>, <<"limit", limit>> >>,
          list_reminders(db, owner_email, limit, fault))

NoExchange == [op |-> "", args |-> Dict(<<>>), status |-> 0, body |-> None]

Idle ==
    /\ last = NoExchange
    /\ inflight = [w \in Workers |-> None]
    /\ raw = None
    /\ pub = None
    /\ passes = 0

\* there is room for n more documents
Room(n) == TotalDocs(db) + n <= MaxDocs

(***************************************************************************)
(* Spec: every endpoint, requests served one after the other by a          *)
(* connected store whose operations succeed.                               *)
(***************************************************************************)
Init == db = EmptyStore /\ Idle

Requests(Faults, Changes) ==
    \/ Root
    \/ \E f \in Faults : TestDatabase(f)
    \/ \E p \in ProfileInputs, f \in Faults : Room(1) /\ CreateProfile(p, f)
    \/ \E e \in Emails, c \in Changes, now \in Times, f \in Faults :
          UpdateProfile(e, c, now, f)
    \/ \E e \in Emails, f \in Faults : GetProfile(e, f)
    \/ \E r \in FewReports, f \in Faults : Room(1) /\ CreateReport(r, f)
    \/ \E o \in FewOwners, l \in FewLimits, f \in Faults : ListReports(o, l, f)
    \/ \E m \in FewChats, f \in Faults : Room(2) /\ Chat(m, f)
    \/ \E c \in FewConversations, o \in FewOwners, l \in FewLimits, now \in Times,
          f \in Faults : ChatHistory(c, o, l, now, f)
    \/ \E s \in FewSymptoms, f \in Faults : Room(1) /\ SubmitSymptoms(s, f)
    \/ \E o \in FewOwners, l \in FewLimits, f \in Faults : ListSymptomChecks(o, l, f)
    \/ \E r \in FewReminders, f \in Faults : Room(1) /\ CreateReminder(r, f)
    \/ \E o \in FewOwners, l \in FewLimits, f \in Faults : ListReminders(o, l, f)

Next == Requests(NoFault, ChangeInputs)

Spec == Init /\ [][Next]_vars

(***************************************************************************)
(* SpecFault: every endpoint, with a store that may not be configured      *)
(* (db is None) and whose operations may raise at any point of a handler.  *)
(***************************************************************************)
InitFault == db \in {None, EmptyStore} /\ Idle

NextFault == Requests(AnyFault, FewChanges)

SpecFault == InitFault /\ [][NextFault]_vars

(***************************************************************************)
(* SpecLists: the four list endpoints over what the create endpoints of    *)
(* their collections stored.                                               *)
(***************************************************************************)
NextLists ==
    \/ \E r \in ReportInputs : Room(1) /\ CreateReport(r, 0)
    \/ \E q \in ListInputs : ListReports(q[1], q[2], 0)
    \/ \E m \in ListedChats : Room(2) /\ Chat(m, 0)
    \/ \E q \in HistoryInputs, now \in Times : ChatHistory(q[1], q[2], q[3], now, 0)
    \/ \E s \in ListedSymptoms : Room(1) /\ SubmitSymptoms(s, 0)
    \/ \E q \in ListInputs : ListSymptomChecks(q[1], q[2], 0)
    \/ \E r \in ReminderInputs : Room(1) /\ CreateReminder(r, 0)
    \/ \E q \in ListInputs : ListReminders(q[1], q[2], 0)

SpecLists == Init /\ [][NextLists]_vars

(***************************************************************************)
(* SpecChat: the chat endpoints, with room for MaxDocs chat requests.      *)
(***************************************************************************)
NextChat ==
    \/ \E m \in ChatInputs : Len(db["chatmessage"]) < 2 * MaxDocs /\ Chat(m, 0)
    \/ \E q \in HistoryInputs, now \in Times : ChatHistory(q[1], q[2], q[3], now, 0)

SpecChat == Init /\ [][NextChat]_vars

(***************************************************************************)
(* SpecRisk: the symptom checker: one submission, of any count of symptoms *)
(* up to MaxSymptoms and any severity, and the listing of what it stored.  *)
(***************************************************************************)
NextRisk ==
    \/ \E s \in RiskInputs : db["symptomcheck"] = <<>> /\ SubmitSymptoms(s, 0)
    \/ \E q \in ListInputs : ListSymptomChecks(q[1], q[2], 0)

SpecRisk == Init /\ [][NextRisk]_vars

(***************************************************************************)
(* SpecSer: _serialize applied, and applied again, to any small document.  *)
(***************************************************************************)
RawKeys == {"_id", "id", "created_at", "name"}

RawValues == {ObjectId(1), Str("oid-1"), Datetime(1), Str("dateT1"), None, IntV(7)}

RawItems(n) ==
    {s \in [1..n -> RawKeys \X RawValues] : \A i, j \in 1..n : i # j => s[i][1] # s[j][1]}

RawDocs == {None} \cup {Dict(s) : s \in UNION {RawItems(n) : n \in 0..MaxItems}}

InitSer ==
    /\ db = EmptyStore
    /\ last = NoExchange
    /\ inflight = [w \in Workers |-> None]
    /\ raw \in RawDocs
    /\ pub = None
    /\ passes = 0

Serialize ==
    /\ passes < MaxPasses
    /\ pub' = _serialize(IF passes = 0 THEN raw ELSE pub)
    /\ passes' = passes + 1
    /\ UNCHANGED <<db, last, inflight, raw>>

NextSer == Serialize

SpecSer == InitSer /\ [][NextSer]_vars

(***************************************************************************)
(* SpecConc: create_profile served by several workers at once; a worker    *)
(* may be between its uniqueness query and its insert while another runs.  *)
(***************************************************************************)
Pending == Cardinality({w \in Workers : inflight[w] # None})

\* lines 70-74: up to the uniqueness check
CreateProfileCheck(w, profile) ==
    /\ inflight[w] = None
    /\ TotalDocs(db) + Pending < MaxDocs
    /\ LET checked == create_profile_check(db, profile, FALSE)
       IN IF checked.status # 0
          THEN /\ last' = Exchange("create_profile", profile, checked)
               /\ UNCHANGED inflight
          ELSE /\ inflight' = [inflight EXCEPT ![w] = Dict(profile)]
               /\ UNCHANGED last
    /\ UNCHANGED <<db, raw, pub, passes>>

\* lines 75-76: the insert and the answer
CreateProfileInsert(w) ==
    /\ inflight[w] # None
    /\ LET r == create_profile_insert(db, inflight[w].v, FALSE)
       IN /\ db' = r.store
          /\ last' = Exchange("create_profile", inflight[w].v, r)
    /\ inflight' = [inflight EXCEPT ![w] = None]
    /\ UNCHANGED <<raw, pub, passes>>

ConcProfiles ==
    {UserProfile(n, e, None, None, None, None, None, Str("dark"), Bool(TRUE)) :
        n \in {Str("Asha"), Str("Ben")}, e \in Emails}

NextConc ==
    \/ \E w \in Workers, p \in ConcProfiles : CreateProfileCheck(w, p)
    \/ \E w \in Workers : CreateProfileInsert(w)
    \/ \E e \in Emails : GetProfile(e, 0)

SpecConc == Init /\ [][NextConc]_vars

(***************************************************************************)
(* What the claims speak of.                                               *)
(***************************************************************************)
Arg(x, k) == Get(x.args.v, k)

Detail(x) == Get(x.body.v, "detail").v

HasProfile(store, email) ==
    \E i \in 1..Len(store["userprofile"]) : Get(store["userprofile"][i], "email") = email

Ids(docs) == {Get(docs[i], "_id") : i \in 1..Len(docs)}

ListOps == {"list_reports", "list_symptom_checks", "list_reminders", "chat_history"}

CollectionOf(op) ==
    CASE op = "list_reports" -> "report"
      [] op = "list_symptom_checks" -> "symptomcheck"
      [] op = "list_reminders" -> "reminder"
      [] op = "chat_history" -> "chatmessage"

\* C1: the collection never holds an email twice; a duplicate is refused
C1_UniqueEmail ==
    \A i, j \in 1..Len(db["userprofile"]) :
        i # j => Get(db["userprofile"][i], "email") # Get(db["userprofile"][j], "email")

C1_DuplicateRefused ==
    (/\ last'.op = "create_profile"
     /\ ValidUserProfile(last'.args.v)
     /\ HasProfile(db, Arg(last', "email")))
    => (/\ last'.status = 400
        /\ Detail(last') = "Profile with this email already exists"
        /\ db' = db)

(***************************************************************************)
(* C1.  Requests served one after the other: no two profiles of the        *)
(* collection have the same email, and a create_profile (with a valid      *)
(* body) for an email that already has a profile is answered with the      *)
(* Conflict error (400, "Profile with this email already exists") and      *)
(* leaves the store as it was.                                             *)
(***************************************************************************)
C1_CreateOnce == []C1_UniqueEmail /\ [][C1_DuplicateRefused]_vars

C1_Witness ==
    /\ last.op = "create_profile"
    /\ last.status = 400
    /\ HasProfile(db, Arg(last, "email"))

\* C5: one step
C5_Step ==
    (last'.op = "update_profile" /\ ~HasProfile(db, Arg(last', "email")))
    => (last'.status = 404 /\ Detail(last') = "Profile not found" /\ db' = db)

(***************************************************************************)
(* C5.  update_profile for an email that has no profile is answered with   *)
(* NotFound (404, "Profile not found"), whatever the changes, and leaves   *)
(* the store as it was.                                                    *)
(***************************************************************************)
C5_UpdateMissing == [][C5_Step]_vars

C5_Witness ==
    /\ last.op = "update_profile"
    /\ last.status = 404
    /\ TotalDocs(db) > 0
    /\ \E k \in Keys(Arg(last, "changes").v) : Get(Arg(last, "changes").v, k) # None

\* C9: what an update may change, and what any step may remove
C9_Set(before, after, changes, given) ==
    /\ Keys(after) = Keys(before) \cup given \cup {"updated_at"}
    /\ \A k \in given : Get(after, k) = Get(changes, k)
    /\ Get(after, "updated_at").t = "datetime"
    /\ \A k \in Keys(before) \ (given \cup {"updated_at"}) : Get(after, k) = Get(before, k)

C9_Frame ==
    (last'.op = "update_profile" /\ last'.status = 200)
    => \A email \in {Arg(last', "email")}, changes \in {Arg(last', "changes").v},
          old \in {db["userprofile"]}, new \in {db'["userprofile"]} :
          /\ Len(new) = Len(old)
          /\ \A c \in Collections \ {"userprofile"} : db'[c] = db[c]
          /\ \A given \in {{k \in Keys(changes) : Get(changes, k) # None}} :
                \A i \in 1..Len(old) :
                    IF Get(old[i], "email") = email
                    THEN \A before \in {old[i]}, after \in {new[i]} :
                            /\ C9_Set(before, after, changes, given)
                            /\ Get(after, "email") = email
                    ELSE new[i] = old[i]

C9_NoDelete ==
    \A c \in Collections : db'[c] = db[c] \/ Ids(db[c]) \subseteq Ids(db'[c])

(***************************************************************************)
(* C9.  A successful update_profile(email, changes) sets, on the profile   *)
(* with that email, exactly the non-null fields of changes and updated_at; *)
(* every other field of it (email among them) keeps its value, a field it  *)
(* did not have stays absent, every other profile and every other          *)
(* collection is left as it was; and no step of any operation removes a    *)
(* document.                                                               *)
(***************************************************************************)
C9_UpdateFrame == [][C9_Frame /\ C9_NoDelete]_vars

C9_Witness ==
    /\ last.op = "update_profile"
    /\ last.status = 200
    /\ Len(db["userprofile"]) = 2
    /\ \E k \in Keys(Arg(last, "changes").v) : Get(Arg(last, "changes").v, k) = None
    /\ \E k \in Keys(Arg(last, "changes").v) : Get(Arg(last, "changes").v, k) # None

\* doc is what an insert of entity leaves in a collection: an _id, and the fields as sent
Stored(doc, entity) ==
    /\ Has(doc, "_id")
    /\ \A k \in Keys(entity) : GetOr(doc, k, None) = Get(entity, k)

\* C3: one chat request, and the collection it leaves
C3_Step ==
    (/\ last'.op = "chat"
     /\ ValidChatMessage(last'.args.v)
     /\ Arg(last', "role") = Str("user"))
    => LET message == last'.args.v
           old == db["chatmessage"]
           new == db'["chatmessage"]
           n == Len(old)
       IN /\ last'.status = 200
          /\ Len(new) = n + 2
          /\ SubSeq(new, 1, n) = old
          /\ \A c \in Collections \ {"chatmessage"} : db'[c] = db[c]
          /\ Stored(new[n + 1], message)
          /\ Get(new[n + 2], "role") = Str("assistant")
          /\ GetOr(new[n + 2], "conversation_id", None) = Get(message, "conversation_id")
          /\ GetOr(new[n + 2], "owner_email", None) = Get(message, "owner_email")
          /\ Get(new[n + 1], "_id") # Get(new[n + 2], "_id")
          /\ Get(last'.body.v, "user_message_id") = StrOf(Get(new[n + 1], "_id"))
          /\ Get(last'.body.v, "assistant_message_id") = StrOf(Get(new[n + 2], "_id"))

C3_Paired ==
    \A i \in 1..Len(db["chatmessage"]) :
        Get(db["chatmessage"][i], "role") = Str("user")
        => /\ i < Len(db["chatmessage"])
           /\ Get(db["chatmessage"][i + 1], "role") = Str("assistant")
           /\ GetOr(db["chatmessage"][i + 1], "conversation_id", None)
                 = GetOr(db["chatmessage"][i], "conversation_id", None)
           /\ GetOr(db["chatmessage"][i + 1], "owner_email", None)
                 = GetOr(db["chatmessage"][i], "owner_email", None)

(***************************************************************************)
(* C3.  With the store answering, a chat request whose message has role    *)
(* user succeeds and appends exactly two documents to chatmessage: the     *)
(* message with its fields as sent, then one assistant message with the    *)
(* same conversation_id and owner_email; the response names the two ids.   *)
(* So every persisted user message is directly followed by its reply.      *)
(***************************************************************************)
C3_ChatPair == []C3_Paired /\ [][C3_Step]_vars

C3_Witness ==
    /\ last.op = "chat"
    /\ last.status = 200
    /\ Arg(last, "role") = Str("user")
    /\ Arg(last, "owner_email") # None
    /\ Arg(last, "conversation_id") # None
    /\ Len(db["chatmessage"]) = 4

\* C8: one step
C8_FailStep == last'.status # 200 => db' = db

(***************************************************************************)
(* C8.  Every handler, chat among them, is all or nothing: a request that  *)
(* fails, at validation or at any of its store calls, leaves the store     *)
(* exactly as it was.                                                      *)
(***************************************************************************)
C8_AllOrNothing == [][C8_FailStep]_vars

(***************************************************************************)
(* C4.  A list request whose limit is in range (1..100 for list_reports,   *)
(* list_symptom_checks and list_reminders, 1..200 for chat_history) is     *)
(* answered with at most limit documents; one whose limit is out of range  *)
(* is rejected as invalid and answered with no documents.                  *)
(***************************************************************************)
C4_Limit ==
    last.op \in ListOps
    => LET limit == Arg(last, "limit").v
           hi == IF last.op = "chat_history" THEN 200 ELSE 100
       IN IF 1 <= limit /\ limit <= hi
          THEN last.status = 200 /\ last.body.t = "list" /\ Len(last.body.v) <= limit
          ELSE last.status = 422 /\ last.body.t # "list"

C4_Witness ==
    /\ last.op = "list_reports"
    /\ last.status = 200
    /\ Arg(last, "limit") = IntV(1)
    /\ Len(last.body.v) = 1
    /\ Len(db["report"]) = 2

(***************************************************************************)
(* C10, as the spec states it.  Whatever string is given for owner_email   *)
(* (or, to chat_history, for conversation_id), every document returned     *)
(* has that field equal to it.                                             *)
(***************************************************************************)
FilterParams(op) ==
    IF op = "chat_history" THEN {"conversation_id", "owner_email"} ELSE {"owner_email"}

C10_EveryString ==
    (last.op \in ListOps /\ last.status = 200)
    => \A p \in {q \in FilterParams(last.op) : Arg(last, q).t = "str"} :
          \A i \in 1..Len(last.body.v) : GetOr(last.body.v[i].v, p, None) = Arg(last, p)

(***************************************************************************)
(* C10, amended.  The parameters given as a non-empty string are the       *)
(* filters of a list request: the answer is made of stored documents whose *)
(* fields equal every one of them, as many as there are up to limit.  A    *)
(* parameter left out, or given as the empty string, filters nothing.      *)
(***************************************************************************)
C10_Filtered ==
    (last.op \in ListOps /\ last.status = 200)
    => LET given == {q \in FilterParams(last.op) :
                        Arg(last, q).t = "str" /\ Arg(last, q).v # ""}
           all == db[CollectionOf(last.op)]
           matching == {i \in 1..Len(all) :
                           \A p \in given : GetOr(all[i], p, None) = Arg(last, p)}
           body == last.body.v
           limit == Arg(last, "limit").v
       IN /\ \A i \in 1..Len(body) :
                \A p \in given : GetOr(body[i].v, p, None) = Arg(last, p)
          /\ {Get(body[i].v, "id") : i \in 1..Len(body)}
                \subseteq {StrOf(Get(all[i], "_id")) : i \in matching}
          /\ Cardinality({Get(body[i].v, "id") : i \in 1..Len(body)}) = Len(body)
          /\ Len(body) = IF limit < Cardinality(matching) THEN limit
                         ELSE Cardinality(matching)

C10_Witness ==
    /\ last.op = "chat_history"
    /\ last.status = 200
    /\ Arg(last, "owner_email") = Str("a@b.com")
    /\ Arg(last, "conversation_id") = Str("c1")
    /\ Len(last.body.v) = 1
    /\ Len(db["chatmessage"]) = 2

(***************************************************************************)
(* The risk of a submission, in hundredths, by the spec's decimal formula  *)
(* min(1, 0.15 N + w) with w = 0.30, 0.60, 0.85 for mild, moderate, severe *)
(* and 0.20 for no severity.                                               *)
(***************************************************************************)
WeightHundredths(severity) ==
    CASE severity = Str("mild") -> 30
      [] severity = Str("moderate") -> 60
      [] severity = Str("severe") -> 85
      [] OTHER -> 20

DecimalRisk(entry) ==
    LET h == 15 * Len(Get(entry, "symptoms").v) + WeightHundredths(Get(entry, "severity"))
    IN IF h > 100 THEN 100 ELSE h

\* the same formula evaluated in binary64, operation by operation
DoubleRisk(entry) ==
    FloatMin(One,
             FloatAdd(FloatMulInt(FloatLit(15), Len(Get(entry, "symptoms").v)),
                      FloatLit(WeightHundredths(Get(entry, "severity")))))

\* 2^-53, the most by which two doubles below 1 that are next to each other differ
Ulp == PowerOfTwo(12 * FracDigits - MantissaBits)

Accepted == last.op = "submit_symptoms" /\ last.status = 200

NewCheck == db["symptomcheck"][Len(db["symptomcheck"])]

(***************************************************************************)
(* C2, as the spec states it.  An accepted submission of N symptoms with   *)
(* severity s is answered with, and persisted with, the risk score         *)
(* min(1, 0.15 N + w(s)): the double that the decimal value denotes, as    *)
(* 0.90 for two symptoms and moderate.                                     *)
(***************************************************************************)
C2_Decimal ==
    Accepted
    => /\ Get(last.body.v, "risk_score") = Float(FloatLit(DecimalRisk(last.args.v)))
       /\ Get(NewCheck, "risk_score") = Float(FloatLit(DecimalRisk(last.args.v)))

(***************************************************************************)
(* C2, amended.  An accepted submission of N symptoms with severity s is   *)
(* answered with, and persisted with, the double that results from         *)
(* evaluating min(1.0, 0.15 * N + w(s)) in binary64, each operation        *)
(* rounded.  It lies in [0, 1] and is within 2^-53 of the decimal value    *)
(* without always being the double nearest to it.  The assessment is the   *)
(* fixed text.  Neither depends on a risk_score or an assessment that the  *)
(* client sent.                                                            *)
(***************************************************************************)
C2_Risk ==
    Accepted
    => LET entry == last.args.v
           computed == DoubleRisk(entry)
           decimal == FloatLit(DecimalRisk(entry))
       IN /\ Get(last.body.v, "risk_score") = Float(computed)
          /\ Get(NewCheck, "risk_score") = Float(computed)
          /\ Leq(computed, One)
          /\ Leq(computed, Add(decimal, Ulp))
          /\ Leq(decimal, Add(computed, Ulp))
          /\ Get(last.body.v, "assessment") = Str(assessment_text)
          /\ Get(NewCheck, "assessment") = Str(assessment_text)
          /\ Get(last.body.v, "id") = StrOf(Get(NewCheck, "_id"))

C2_Witness ==
    /\ Accepted
    /\ Len(Arg(last, "symptoms").v) = 2
    /\ Arg(last, "severity") = Str("moderate")
    /\ Arg(last, "risk_score") # None
    /\ Arg(last, "assessment") # None
    /\ Get(last.body.v, "risk_score") # Float(FloatLit(90))
    /\ Get(NewCheck, "risk_score") = Get(last.body.v, "risk_score")

\* d1 == d2 in Python: the same keys with the same values, in any order
DictEq(d1, d2) ==
    /\ Keys(d1) = Keys(d2)
    /\ \A k \in Keys(d1) : Get(d1, k) = Get(d2, k)

PyEq(a, b) == IF a.t = "dict" /\ b.t = "dict" THEN DictEq(a.v, b.v) ELSE a = b

\* C6: null stays null; a further pass changes nothing
C6_NullStays == (raw = None /\ passes >= 1) => pub = None

C6_SecondPass == passes >= 1 => PyEq(pub', pub)

(***************************************************************************)
(* C6.  _serialize applied to its own result changes nothing in it, and    *)
(* _serialize of null is null.                                             *)
(***************************************************************************)
C6_Idempotent == []C6_NullStays /\ [][C6_SecondPass]_vars

C6_Witness ==
    /\ passes = 2
    /\ raw # None
    /\ Has(raw.v, "_id")
    /\ \E k \in Keys(raw.v) : Get(raw.v, k).t = "datetime"
    /\ ~PyEq(pub, raw)

\* C7: one step of a worker
C7_Step ==
    \A w \in Workers :
        /\ (inflight[w] = None /\ inflight'[w] # None)
           => ~HasProfile(db, Get(inflight'[w].v, "email")) /\ db' = db
        /\ (inflight[w] # None /\ inflight'[w] = None)
           => /\ last'.op = "create_profile"
              /\ last'.status = 200
              /\ Len(db'["userprofile"]) = Len(db["userprofile"]) + 1
              /\ SubSeq(db'["userprofile"], 1, Len(db["userprofile"])) = db["userprofile"]
              /\ Stored(db'["userprofile"][Len(db'["userprofile"])], inflight[w].v)

(***************************************************************************)
(* C7.  With several requests in progress, a create_profile whose lookup   *)
(* found no profile with its email goes on to insert whatever the others   *)
(* have done since: its insert adds a profile and the request succeeds.    *)
(* So two requests with the same email whose lookups both ran before       *)
(* either insert both succeed, and the collection holds two profiles with  *)
(* that email.                                                             *)
(***************************************************************************)
C7_Race == [][C7_Step]_vars

C7_Witness ==
    /\ last.op = "create_profile"
    /\ last.status = 200
    /\ inflight = [w \in Workers |-> None]
    /\ \E i, j \in 1..Len(db["userprofile"]) :
          /\ i # j
          /\ Get(db["userprofile"][i], "email") = Get(db["userprofile"][j], "email")

====
